---- MODULE Spec2Model ----
(***************************************************************************)
(* PAWS Streamlined (src/paws_streamlined.py): the compliance predicates,  *)
(* the table of standards, the three boto3 checks, run_basic_audit, the    *)
(* three scanner runners and the dispatch of main().                       *)
(*                                                                         *)
(* Python values: a dict is a function on strings (the empty dict is       *)
(* <<>>), a list is a sequence, None of an optional string is the string   *)
(* None below, an optional list is a record [is_none, list].  Formatted    *)
(* messages are sequences of strings.  Timestamps, region and profile are  *)
(* carried as fixed tokens: nothing in the program branches on them.       *)
(***************************************************************************)
EXTENDS Integers, Sequences, FiniteSets, TLC

VARIABLES
    pc,             \* position of main(), or the method called directly
    args,           \* argparse namespace of main()
    installed,      \* tool name -> what _resolve_tool_path finds (None or a path)
    aws_connected,  \* self.aws_connected
    audits,         \* one record per completed run_basic_audit call, in order
    calls,          \* log of the operations performed, in order
    files,          \* paths that exist as regular files
    dirs,           \* paths that exist as directories
    subprocs,       \* subprocess.run invocations, in order
    rets,           \* return values of the scanner runners, in order
    shown,          \* what main() displayed (tool status, help)
    arg,            \* argument of the entry point: sys.argv of main(), or of a method
    call,           \* parameters of the run_basic_audit call in progress (or last made)
    out             \* results dict run_basic_audit builds; a direct call's return value

vars == <<pc, args, installed, aws_connected, audits, calls, files, dirs,
          subprocs, rets, shown, arg, call, out>>

-----------------------------------------------------------------------------
(* Python helpers *)

None == "None"

EmptyDict == <<>>

\* truthiness of an optional string
Truthy(v) == v \notin {None, ""}

\* dict.get(k, default)
Get(d, k, default) == IF k \in DOMAIN d THEN d[k] ELSE default

Min(a, b) == IF a < b THEN a ELSE b

Max(a, b) == IF a > b THEN a ELSE b

\* d[k] = v on a dict
Put(d, k, v) == [x \in (DOMAIN d) \cup {k} |-> IF x = k THEN v ELSE d[x]]

RECURSIVE SumSeq(_)
SumSeq(s) == IF s = <<>> THEN 0 ELSE Head(s) + SumSeq(Tail(s))

-----------------------------------------------------------------------------
(* The three predicates, lines 43-74 *)

TitleMfa == "Users without MFA"
TitleOldKeys == "Old access keys (>90 days)"
TitlePolicy == "Password policy"

\* the for loop of _finding_by_title from position i on: <<finding>> or <<>> (None)
RECURSIVE FindFrom(_, _, _)
FindFrom(fs, title, i) ==
    IF i > Len(fs) THEN <<>>
    ELSE IF Get(fs[i], "title", None) = title THEN <<fs[i]>>
    ELSE FindFrom(fs, title, i + 1)

\* the loop without its early return: the last finding of that title
RECURSIVE FindLastFrom(_, _, _)
FindLastFrom(fs, title, i) ==
    IF i < 1 THEN <<>>
    ELSE IF Get(fs[i], "title", None) = title THEN <<fs[i]>>
    ELSE FindLastFrom(fs, title, i - 1)

finding_by_title_last(service_data, title) ==
    LET fs == Get(service_data, "findings", <<>>) IN FindLastFrom(fs, title, Len(fs))

finding_by_title(service_data, title) ==
    FindFrom(Get(service_data, "findings", <<>>), title, 1)

eval_mfa(service_data) ==
    IF Truthy(Get(service_data, "error", None))
    THEN [passed |-> FALSE, notes |-> <<"Unable to evaluate:", service_data["error"]>>]
    ELSE LET finding == finding_by_title(service_data, TitleMfa)
         IN  IF finding # <<>> /\ Get(finding[1], "count", 0) > 0
             THEN [passed |-> FALSE,
                   notes |-> <<ToString(Get(finding[1], "count", 0)), "user(s) without MFA.">>]
             ELSE [passed |-> TRUE, notes |-> <<"All IAM users have MFA enforced.">>]

eval_old_keys(service_data) ==
    IF Truthy(Get(service_data, "error", None))
    THEN [passed |-> FALSE, notes |-> <<"Unable to evaluate:", service_data["error"]>>]
    ELSE LET finding == finding_by_title(service_data, TitleOldKeys)
         IN  IF finding # <<>> /\ Get(finding[1], "count", 0) > 0
             THEN [passed |-> FALSE,
                   notes |-> <<ToString(Get(finding[1], "count", 0)),
                               "access key(s) older than 90 days.">>]
             ELSE [passed |-> TRUE, notes |-> <<"No IAM access keys older than 90 days.">>]

eval_password_policy(service_data) ==
    IF Truthy(Get(service_data, "error", None))
    THEN [passed |-> FALSE, notes |-> <<"Unable to evaluate:", service_data["error"]>>]
    ELSE LET finding == finding_by_title(service_data, TitlePolicy)
         IN  IF finding # <<>> /\ Get(finding[1], "status", None) = "not configured"
             THEN [passed |-> FALSE, notes |-> <<"Account password policy is not configured.">>]
             ELSE [passed |-> TRUE, notes |-> <<"Password policy is configured.">>]

\* ctrl['evaluator'](service_data): the table holds the function, here its name
Evaluate(evaluator, service_data) ==
    CASE evaluator = "eval_mfa" -> eval_mfa(service_data)
      [] evaluator = "eval_old_keys" -> eval_old_keys(service_data)
      [] evaluator = "eval_password_policy" -> eval_password_policy(service_data)

-----------------------------------------------------------------------------
(* STANDARD_DEFINITIONS, lines 77-159 *)

Control(id, title, evaluator, description) ==
    [id |-> id, title |-> title, service |-> "iam", evaluator |-> evaluator,
     description |-> description]

CisStandard ==
    [name |-> "CIS AWS Foundations Benchmark", version |-> "1.5",
     controls |-> <<
       Control("1.1", "Ensure MFA is enabled for console access", "eval_mfa",
               "IAM users with console access should have MFA enabled."),
       Control("1.4", "Ensure access keys are rotated every 90 days or less",
               "eval_old_keys", "Inactive or old IAM access keys should be rotated."),
       Control("1.5", "Ensure IAM password policy requires strong passwords",
               "eval_password_policy",
               "Account password policy must be configured for strong passwords.")>>]

NistStandard ==
    [name |-> "NIST Cybersecurity Framework", version |-> "1.1",
     controls |-> <<
       Control("PR.AC-1", "Identities and credentials are managed", "eval_mfa",
               "Access control requires multi-factor authentication."),
       Control("PR.AC-5", "Network integrity is protected", "eval_old_keys",
               "Credential rotation helps maintain access integrity."),
       Control("PR.IP-2", "Configuration change control processes are in place",
               "eval_password_policy",
               "Password policies align with organizational standards.")>>]

PciDssStandard ==
    [name |-> "PCI DSS", version |-> "3.2.1",
     controls |-> <<
       Control("8.3", "Secure all individual non-console administrative access with MFA",
               "eval_mfa", "Administrative access must enforce MFA."),
       Control("8.2",
               "Employ at least one of the following methods to authenticate all users",
               "eval_password_policy", "Strong password policy must be enforced."),
       Control("8.1.4", "Remove/disable inactive user accounts within 90 days",
               "eval_old_keys",
               "Access keys older than 90 days should be rotated/removed.")>>]

\* a table whose last PCI DSS control was pasted with the evaluator of the one before
STANDARD_DEFINITIONS_pasted ==
    [cis |-> CisStandard, nist |-> NistStandard,
     pcidss |-> [PciDssStandard EXCEPT !.controls[3].evaluator = "eval_password_policy"]]

STANDARD_DEFINITIONS ==
    [cis |-> CisStandard, nist |-> NistStandard, pcidss |-> PciDssStandard]

-----------------------------------------------------------------------------
(* _evaluate_standards, lines 868-893 *)

\* one iteration of the inner loop: the entry appended to controls_output
ControlOutput(checks, ctrl) ==
    LET service_data == Get(checks, Get(ctrl, "service", ""), EmptyDict)
        verdict == Evaluate(ctrl["evaluator"], service_data)
    IN  [id |-> Get(ctrl, "id", None),
         title |-> Get(ctrl, "title", None),
         description |-> Get(ctrl, "description", None),
         status |-> IF verdict.passed THEN "pass" ELSE "fail",
         notes |-> verdict.notes]

\* the body of the outer loop with any() where the code says all()
StandardOutputAny(checks, definition) ==
    LET ctrls == Get(definition, "controls", <<>>)
        controls_output == [i \in 1..Len(ctrls) |-> ControlOutput(checks, ctrls[i])]
        overall_status ==
            IF \E i \in 1..Len(ctrls) : controls_output[i].status = "pass"
            THEN "pass" ELSE "fail"
    IN  [name |-> Get(definition, "name", None),
         version |-> Get(definition, "version", None),
         status |-> overall_status,
         controls |-> controls_output]

\* the body of the outer loop for a key the table defines
StandardOutput(checks, definition) ==
    LET ctrls == Get(definition, "controls", <<>>)
        controls_output == [i \in 1..Len(ctrls) |-> ControlOutput(checks, ctrls[i])]
        overall_status ==
            IF \A i \in 1..Len(ctrls) : controls_output[i].status = "pass"
            THEN "pass" ELSE "fail"
    IN  [name |-> Get(definition, "name", None),
         version |-> Get(definition, "version", None),
         status |-> overall_status,
         controls |-> controls_output]

\* the outer loop from position i on, evaluations being the dict built so far
RECURSIVE EvaluateFrom(_, _, _, _)
EvaluateFrom(checks, selected, i, evaluations) ==
    IF i > Len(selected) THEN evaluations
    ELSE LET key == selected[i]
         IN  IF key \notin DOMAIN STANDARD_DEFINITIONS
             THEN EvaluateFrom(checks, selected, i + 1, evaluations)
             ELSE EvaluateFrom(checks, selected, i + 1,
                     Put(evaluations, key, StandardOutput(checks, STANDARD_DEFINITIONS[key])))

evaluate_standards(results, selected) ==
    EvaluateFrom(Get(results, "checks", EmptyDict), selected, 1, EmptyDict)

-----------------------------------------------------------------------------
(* basic_iam_check, lines 401-516.                                         *)
(* resp is what the AWS calls answer: resp.error is None, or the message   *)
(* of the exception one of them raises (any call but the ClientError of    *)
(* get_account_password_policy, which resp.policy states); resp.users is   *)
(* list_users with each user's MFADevices and AccessKeyMetadata.  A key's  *)
(* CreateDate is held as its age in whole days at the time of the check    *)
(* ((utcnow - CreateDate).days); a key without a datetime has no field.    *)

\* the first loop's users_without_mfa
RECURSIVE UsersWithoutMfa(_)
UsersWithoutMfa(users) ==
    IF users = <<>> THEN <<>>
    ELSE (IF Head(users).MFADevices = <<>> THEN <<Head(users).UserName>> ELSE <<>>)
         \o UsersWithoutMfa(Tail(users))

\* the inner loop over one user's access keys
RECURSIVE OldKeysOf(_, _)
OldKeysOf(user_name, keys) ==
    IF keys = <<>> THEN <<>>
    ELSE (IF "CreateDate" \in DOMAIN Head(keys) /\ Head(keys).CreateDate > 90
          THEN <<[user |-> user_name, access_key_id |-> Get(Head(keys), "AccessKeyId", None),
                  age_days |-> Head(keys).CreateDate]>>
          ELSE <<>>)
         \o OldKeysOf(user_name, Tail(keys))

\* the first loop's old_access_keys
RECURSIVE OldAccessKeys(_)
OldAccessKeys(users) ==
    IF users = <<>> THEN <<>>
    ELSE OldKeysOf(Head(users).UserName, Head(users).AccessKeyMetadata)
         \o OldAccessKeys(Tail(users))

\* the deduction without its cap of 10
MfaDeductionUncapped(users_without_mfa) == Len(users_without_mfa) * 2

\* lines 443-457: the deduction for users without MFA
MfaDeduction(users_without_mfa) == Min(10, Len(users_without_mfa) * 2)

\* lines 459-472: the deduction for old access keys
KeyDeduction(old_access_keys) == Min(10, Len(old_access_keys))

\* lines 490-491
PasswordDeduction == 5

\* line 498
ClampScore(score) == Max(0, Min(100, score))

IamError(message) ==
    [error |-> message, security_score |-> 0, findings |-> <<>>,
     score_breakdown |-> <<>>, baseline_score |-> 100]

basic_iam_check(connected, resp) ==
    IF ~connected THEN [error |-> "AWS not connected"]
    ELSE IF resp.error # None THEN IamError(resp.error)
    ELSE
    LET users_without_mfa == UsersWithoutMfa(resp.users)
        old_access_keys == OldAccessKeys(resp.users)
        mfa == users_without_mfa # <<>>
        old == old_access_keys # <<>>
        nopolicy == resp.policy = "ClientError"
        findings ==
            (IF mfa
             THEN <<[category |-> "IAM", severity |-> "medium", title |-> TitleMfa,
                     count |-> Len(users_without_mfa),
                     users |-> SubSeq(users_without_mfa, 1, Min(10, Len(users_without_mfa)))]>>
             ELSE <<>>)
            \o (IF old
                THEN <<[category |-> "IAM", severity |-> "medium", title |-> TitleOldKeys,
                        count |-> Len(old_access_keys)]>>
                ELSE <<>>)
            \o (IF nopolicy
                THEN <<[category |-> "IAM", severity |-> "low", title |-> TitlePolicy,
                        status |-> "not configured"]>>
                ELSE <<[category |-> "IAM", severity |-> "info", title |-> TitlePolicy,
                        status |-> "configured"]>>)
        score_breakdown ==
            (IF mfa
             THEN <<[control |-> "MFA coverage",
                     deduction |-> MfaDeduction(users_without_mfa),
                     details |-> <<ToString(Len(users_without_mfa)), "user(s) without MFA">>]>>
             ELSE <<>>)
            \o (IF old
                THEN <<[control |-> "Old access keys",
                        deduction |-> KeyDeduction(old_access_keys),
                        details |-> <<ToString(Len(old_access_keys)),
                                      "access key(s) older than 90 days">>]>>
                ELSE <<>>)
            \o (IF nopolicy
                THEN <<[control |-> "Password policy", deduction |-> PasswordDeduction,
                        details |-> <<"No account password policy configured">>]>>
                ELSE <<>>)
        score == 100 - (IF mfa THEN MfaDeduction(users_without_mfa) ELSE 0)
                     - (IF old THEN KeyDeduction(old_access_keys) ELSE 0)
                     - (IF nopolicy THEN PasswordDeduction ELSE 0)
    IN  [account_id |-> resp.account,
         security_score |-> ClampScore(score),
         findings |-> findings,
         timestamp |-> "utcnow",
         score_breakdown |-> score_breakdown,
         baseline_score |-> 100]

-----------------------------------------------------------------------------
(* basic_s3_check, lines 518-557.  resp.buckets is list_buckets, each      *)
(* bucket with what get_public_access_block answers: pab_error TRUE for a  *)
(* ClientError, else its PublicAccessBlockConfiguration dict.              *)

PabKeys == <<"BlockPublicAcls", "IgnorePublicAcls", "BlockPublicPolicy", "RestrictPublicBuckets">>

RECURSIVE S3Findings(_)
S3Findings(buckets) ==
    IF buckets = <<>> THEN <<>>
    ELSE LET bucket == Head(buckets)
             bucket_name == Get(bucket, "Name", None)
         IN  (IF bucket.pab_error
              THEN <<[bucket |-> bucket_name,
                      issue |-> "No public access block configuration",
                      severity |-> "high"]>>
              ELSE IF ~(\A i \in 1..Len(PabKeys) : Get(bucket.config, PabKeys[i], FALSE))
              THEN <<[bucket |-> bucket_name,
                      issue |-> "Public access block not fully enabled",
                      severity |-> "medium"]>>
              ELSE <<>>)
             \o S3Findings(Tail(buckets))

basic_s3_check(connected, resp) ==
    IF ~connected THEN [error |-> "AWS not connected"]
    ELSE IF resp.error # None THEN [error |-> resp.error, findings |-> <<>>]
    ELSE [buckets_checked |-> Len(resp.buckets),
          findings |-> S3Findings(resp.buckets),
          timestamp |-> "utcnow"]

-----------------------------------------------------------------------------
(* basic_ec2_check, lines 559-598.  resp.SecurityGroups is the answer of   *)
(* describe_security_groups.                                               *)

sensitive_ports == {22, 3389, 3306, 5432}

RECURSIVE RangeFindings(_, _, _)
RangeFindings(group_id, perm, ranges) ==
    IF ranges = <<>> THEN <<>>
    ELSE (IF Get(Head(ranges), "CidrIp", None) = "0.0.0.0/0"
          THEN <<[security_group |-> group_id, port |-> perm.FromPort,
                  protocol |-> Get(perm, "IpProtocol", None),
                  issue |-> <<"Port", ToString(perm.FromPort), "open to 0.0.0.0/0">>,
                  severity |-> "high"]>>
          ELSE <<>>)
         \o RangeFindings(group_id, perm, Tail(ranges))

RECURSIVE PermFindings(_, _)
PermFindings(group_id, perms) ==
    IF perms = <<>> THEN <<>>
    ELSE LET perm == Head(perms)
         IN  (IF "FromPort" \in DOMAIN perm /\ perm.FromPort # 0
                 /\ perm.FromPort \in sensitive_ports
              THEN RangeFindings(group_id, perm, Get(perm, "IpRanges", <<>>))
              ELSE <<>>)
             \o PermFindings(group_id, Tail(perms))

RECURSIVE Ec2Findings(_)
Ec2Findings(groups) ==
    IF groups = <<>> THEN <<>>
    ELSE PermFindings(Get(Head(groups), "GroupId", None),
                      Get(Head(groups), "IpPermissions", <<>>))
         \o Ec2Findings(Tail(groups))

basic_ec2_check(connected, resp) ==
    IF ~connected THEN [error |-> "AWS not connected"]
    ELSE IF resp.error # None THEN [error |-> resp.error, findings |-> <<>>]
    ELSE [security_groups_checked |-> Len(resp.SecurityGroups),
          findings |-> Ec2Findings(resp.SecurityGroups),
          timestamp |-> "utcnow"]

-----------------------------------------------------------------------------
(* Inputs: bounded families of what the callers and AWS can hand over *)

MaxFindings == 2
MaxUsers == 6

SeqsUpTo(S, n) == UNION {[1..k -> S] : k \in 0..n}

\* findings as the predicates may meet them: with or without title, count, status
EvalFindings ==
    {[category |-> "IAM"]}
    \cup UNION {{[title |-> t],
                 [title |-> t, count |-> 0],
                 [title |-> t, count |-> 2],
                 [title |-> t, status |-> "configured"],
                 [title |-> t, status |-> "not configured"]}
                : t \in {TitleMfa, TitleOldKeys, TitlePolicy}}

\* service data: with or without 'findings', with no, an empty or a set 'error'
EvalServiceData ==
    LET base == {EmptyDict} \cup {[findings |-> fs] : fs \in SeqsUpTo(EvalFindings, MaxFindings)}
    IN  base \cup {Put(b, "error", e) : b \in base, e \in {"", "AccessDenied"}}

EvalChecks == {EmptyDict} \cup {[iam |-> sd] : sd \in EvalServiceData}

EvalSelected ==
    {<<>>, <<"cis">>, <<"nist">>, <<"pcidss">>, <<"hipaa">>, <<"pcidss", "cis">>,
     <<"nist", "nist">>, <<"cis", "hipaa", "nist">>, <<"cis", "nist", "pcidss">>}

\* the access keys every user of an account holds: ages in days, one key without a date
KeyProfiles ==
    {<<>>,
     <<[AccessKeyId |-> "AKIA1", CreateDate |-> 90]>>,
     <<[AccessKeyId |-> "AKIA1", CreateDate |-> 91], [AccessKeyId |-> "AKIA2", CreateDate |-> 30]>>,
     <<[AccessKeyId |-> "AKIA1", CreateDate |-> 400], [AccessKeyId |-> "AKIA2"],
       [AccessKeyId |-> "AKIA3", CreateDate |-> 91]>>}

\* n users, those of nomfa without an MFA device, each holding the keys of profile
IamUsers(n, nomfa, profile) ==
    [i \in 1..n |-> [UserName |-> ToString(i),
                     MFADevices |-> IF i \in nomfa THEN <<>> ELSE <<"mfa">>,
                     AccessKeyMetadata |-> profile]]

IamResponses(N) ==
    {[error |-> "AccessDenied"]}
    \cup UNION {{[error |-> None, account |-> "123456789012",
                  users |-> IamUsers(n, nomfa, profile), policy |-> policy]
                 : nomfa \in SUBSET (1..n), profile \in KeyProfiles,
                   policy \in {"configured", "ClientError"}}
                : n \in 0..N}

-----------------------------------------------------------------------------
(* State *)

Tools == {"PACU", "Scout Suite", "CloudMapper", "aws-public-ips"}

NoArgs == [check_tools |-> FALSE]

\* the state of an object on which nothing was called yet
Fresh ==
    /\ audits = <<>>
    /\ calls = <<>>
    /\ files = {}
    /\ subprocs = <<>>
    /\ rets = <<>>
    /\ shown = <<>>
    /\ call = <<>>
    /\ out = <<>>

-----------------------------------------------------------------------------
(* Methods called directly *)

\* _evaluate_standards(results, selected) on arbitrary results
InitEval ==
    /\ Fresh
    /\ pc = "evaluate_standards"
    /\ dirs = {"."}
    /\ args = NoArgs
    /\ installed = [t \in Tools |-> None]
    /\ aws_connected = FALSE
    /\ arg \in {[results |-> [checks |-> c], selected |-> sel]
                : c \in EvalChecks, sel \in EvalSelected}

CallEvaluateStandards ==
    /\ pc = "evaluate_standards"
    /\ out' = evaluate_standards(arg.results, arg.selected)
    /\ calls' = Append(calls, "_evaluate_standards")
    /\ pc' = "returned"
    /\ UNCHANGED <<args, installed, aws_connected, audits, files, dirs, subprocs,
                   rets, shown, arg, call>>

NextEval == CallEvaluateStandards

SpecEval == InitEval /\ [][NextEval]_vars

\* basic_iam_check() against an account of up to MaxUsers users
InitIam ==
    /\ Fresh
    /\ pc = "basic_iam_check"
    /\ dirs = {"."}
    /\ args = NoArgs
    /\ installed = [t \in Tools |-> None]
    /\ aws_connected \in BOOLEAN
    /\ arg \in IamResponses(MaxUsers)

CallBasicIamCheck ==
    /\ pc = "basic_iam_check"
    /\ out' = basic_iam_check(aws_connected, arg)
    /\ calls' = Append(calls, "basic_iam_check")
    /\ pc' = "returned"
    /\ UNCHANGED <<args, installed, aws_connected, audits, files, dirs, subprocs,
                   rets, shown, arg, call>>

NextIam == CallBasicIamCheck

SpecIam == InitIam /\ [][NextIam]_vars

-----------------------------------------------------------------------------
(* The file system the program writes to.  A path is a string; the paths   *)
(* the program can name are the two defaults of main() and the file names  *)
(* the caller gives, which lie in the working directory.                   *)

ScoutDefaultDir == "out/scout-suite"
PublicIpsDefaultFile == "out/aws-public-ips/public-ips.json"
DefaultPdf == "audit_report.pdf"

\* Path(p).parent
Parent(p) ==
    CASE p = PublicIpsDefaultFile -> "out/aws-public-ips"
      [] p = "out/aws-public-ips" -> "out"
      [] p = ScoutDefaultDir -> "out"
      [] OTHER -> "."

\* p and the directories above it
Ancestors(p) == {p, Parent(p), Parent(Parent(p)), "."}

\* Path(p).mkdir(parents=True, exist_ok=True) raises when p, or a directory above
\* it, exists as a regular file
MkdirRaises(p, fs_files) == Ancestors(p) \cap fs_files # {}

\* open(p, 'w') raises when p is a directory
OpenRaises(p, fs_dirs) == p \in fs_dirs

-----------------------------------------------------------------------------
(* run_basic_audit, lines 600-662 *)

NoneList == [is_none |-> TRUE, list |-> <<>>]

SomeList(l) == [is_none |-> FALSE, list |-> l]

\* lines 609-616
InitialResults ==
    [timestamp |-> "utcnow", region |-> "us-west-2", profile |-> None,
     checks |-> EmptyDict, baseline_score |-> 100, score_breakdown |-> <<>>]

\* weighted scoring switched on for S3: ten points off per finding, 0 on an error
AuditScoresWithS3(iam_results, s3_results, ec2_results) ==
    (IF "security_score" \in DOMAIN iam_results THEN <<iam_results.security_score>> ELSE <<>>)
    \o (IF "error" \in DOMAIN s3_results THEN <<0>>
        ELSE <<100 - 10 * Len(Get(s3_results, "findings", <<>>))>>)

\* lines 634-636: the scores that enter the overall score
AuditScores(iam_results, s3_results, ec2_results) ==
    IF "security_score" \in DOMAIN iam_results THEN <<iam_results.security_score>> ELSE <<>>

\* list(STANDARD_DEFINITIONS.keys()), in the order the table is written
StandardKeys == <<"cis", "nist", "pcidss">>

\* the selection taken as given, without the fall-back to every profile
SelectedStandardsAsGiven(standards) ==
    IF standards.is_none THEN <<>> ELSE standards.list

\* lines 646-648
SelectedStandards(standards) ==
    LET selected_standards == IF standards.is_none THEN <<>> ELSE standards.list
    IN  IF selected_standards = <<>> THEN StandardKeys ELSE selected_standards

\* lines 633-650: results once the three checks are in results['checks']
AuditResults(results, standards) ==
    LET iam_results == results.checks["iam"]
        scores == AuditScores(iam_results, results.checks["s3"], results.checks["ec2"])
        overall == IF scores # <<>> THEN SumSeq(scores) \div Len(scores) ELSE 0
        scored == Put(Put(Put(results, "overall_score", overall),
                          "baseline_score", Get(iam_results, "baseline_score", 100)),
                      "score_breakdown", Get(iam_results, "score_breakdown", <<>>))
        selected_standards == SelectedStandards(standards)
    IN  Put(Put(scored, "standards", evaluate_standards(scored, selected_standards)),
            "selected_standards", selected_standards)

\* a test for None where the code tests for truth
SaveRequestedNotNone(output_file) == output_file # None

\* line 653: if output_file
SaveRequested(output_file) == Truthy(output_file)

\* line 659: if pdf_output
PdfRequested(pdf_output) == Truthy(pdf_output)

\* the caller of the run_basic_audit in progress: main(), or a direct call
CalledFromMain == args # [check_tools |-> FALSE]

\* the call itself, lines 600-616
EnterRunBasicAudit(output_file, pdf_output, standards) ==
    /\ call' = [output_file |-> output_file, pdf_output |-> pdf_output,
                standards |-> standards]
    /\ out' = InitialResults
    /\ calls' = Append(calls, "run_basic_audit")
    /\ pc' = "audit_iam"

\* a direct call of run_basic_audit, at most maxRuns of them on one object
CallRunBasicAudit(maxRuns, Params) ==
    /\ pc = "api"
    /\ Len(audits) < maxRuns
    /\ \E p \in Params : EnterRunBasicAudit(p.output_file, p.pdf_output, p.standards)
    /\ UNCHANGED <<args, installed, aws_connected, audits, files, dirs, subprocs,
                   rets, shown, arg>>

\* lines 618-621
AuditIam(Responses) ==
    /\ pc = "audit_iam"
    /\ \E resp \in Responses :
         out' = [out EXCEPT !.checks = Put(@, "iam", basic_iam_check(aws_connected, resp))]
    /\ calls' = Append(calls, "basic_iam_check")
    /\ pc' = "audit_s3"
    /\ UNCHANGED <<args, installed, aws_connected, audits, files, dirs, subprocs,
                   rets, shown, arg, call>>

\* lines 623-626
AuditS3(Responses) ==
    /\ pc = "audit_s3"
    /\ \E resp \in Responses :
         out' = [out EXCEPT !.checks = Put(@, "s3", basic_s3_check(aws_connected, resp))]
    /\ calls' = Append(calls, "basic_s3_check")
    /\ pc' = "audit_ec2"
    /\ UNCHANGED <<args, installed, aws_connected, audits, files, dirs, subprocs,
                   rets, shown, arg, call>>

\* lines 628-631
AuditEc2(Responses) ==
    /\ pc = "audit_ec2"
    /\ \E resp \in Responses :
         out' = [out EXCEPT !.checks = Put(@, "ec2", basic_ec2_check(aws_connected, resp))]
    /\ calls' = Append(calls, "basic_ec2_check")
    /\ pc' = "audit_finish"
    /\ UNCHANGED <<args, installed, aws_connected, audits, files, dirs, subprocs,
                   rets, shown, arg, call>>

\* lines 633-662, and line 1000 when main() is the caller.  Writing the JSON file
\* is outside any try: when it raises, the exception leaves run_basic_audit and
\* the program.  _generate_pdf_report (lines 664-866) writes the PDF unless
\* ReportLab is missing or building the document raises, which it swallows.
AuditFinish ==
    /\ pc = "audit_finish"
    /\ LET results == AuditResults(out, call.standards)
           save == SaveRequested(call.output_file)
           pdf == PdfRequested(call.pdf_output)
           raises == save /\ (\/ MkdirRaises(Parent(call.output_file), files)
                              \/ OpenRaises(call.output_file, dirs))
       IN  /\ out' = results
           /\ IF raises
              THEN /\ pc' = "crashed"
                   /\ calls' = calls
                   /\ UNCHANGED <<audits, files, dirs>>
              ELSE /\ pc' = IF CalledFromMain THEN "pacu" ELSE "api"
                   /\ audits' = Append(audits, [call |-> call, results |-> results])
                   /\ calls' = calls
                        \o <<"_evaluate_standards">>
                        \o (IF save THEN <<"json.dump">> ELSE <<>>)
                        \o (IF pdf THEN <<"_generate_pdf_report">> ELSE <<>>)
                        \o (IF CalledFromMain THEN <<"display_audit_results">> ELSE <<>>)
                   /\ \E pdf_written \in BOOLEAN :
                        LET after_save == IF save THEN files \cup {call.output_file} ELSE files
                            can_write == /\ pdf
                                         /\ ~MkdirRaises(Parent(call.pdf_output), after_save)
                                         /\ ~OpenRaises(call.pdf_output, dirs)
                        IN  /\ files' = IF can_write /\ pdf_written
                                        THEN after_save \cup {call.pdf_output}
                                        ELSE after_save
                            /\ dirs' = dirs \cup
                                 (IF save THEN Ancestors(Parent(call.output_file)) ELSE {})
                                 \cup (IF can_write /\ pdf_written
                                       THEN Ancestors(Parent(call.pdf_output)) ELSE {})
    /\ UNCHANGED <<args, installed, aws_connected, subprocs, rets, shown, arg, call>>

-----------------------------------------------------------------------------
(* What AWS answers to an audit: a failing call, an account with nothing   *)
(* to report, and one with a finding of every kind.                        *)

AuditIamResponses ==
    {[error |-> "AccessDenied"],
     [error |-> None, account |-> "123456789012", users |-> <<>>, policy |-> "configured"],
     [error |-> None, account |-> "123456789012", policy |-> "ClientError",
      users |-> IamUsers(1, {1}, <<[AccessKeyId |-> "AKIA1", CreateDate |-> 91]>>)]}

AuditS3Responses ==
    {[error |-> "AccessDenied"],
     [error |-> None, buckets |-> <<>>],
     [error |-> None,
      buckets |-> <<[Name |-> "logs", pab_error |-> FALSE,
                     config |-> [BlockPublicAcls |-> TRUE, IgnorePublicAcls |-> TRUE,
                                 BlockPublicPolicy |-> TRUE, RestrictPublicBuckets |-> TRUE]],
                    [Name |-> "site", pab_error |-> FALSE,
                     config |-> [BlockPublicAcls |-> TRUE, IgnorePublicAcls |-> FALSE]],
                    [Name |-> "tmp", pab_error |-> TRUE, config |-> EmptyDict]>>]}

AuditEc2Responses ==
    {[error |-> "UnauthorizedOperation"],
     [error |-> None, SecurityGroups |-> <<>>],
     [error |-> None,
      SecurityGroups |-> <<
        [GroupId |-> "sg-1",
         IpPermissions |-> <<
           [FromPort |-> 22, ToPort |-> 22, IpProtocol |-> "tcp",
            IpRanges |-> <<[CidrIp |-> "10.0.0.0/8"], [CidrIp |-> "0.0.0.0/0"]>>],
           [FromPort |-> 80, ToPort |-> 80, IpProtocol |-> "tcp",
            IpRanges |-> <<[CidrIp |-> "0.0.0.0/0"]>>],
           [IpProtocol |-> "-1", IpRanges |-> <<[CidrIp |-> "0.0.0.0/0"]>>]>>],
        [GroupId |-> "sg-2"]>>]}

\* the standards arguments a caller of run_basic_audit may pass
ApiStandards ==
    {NoneList, SomeList(<<>>), SomeList(<<"cis">>), SomeList(<<"pcidss", "nist">>),
     SomeList(<<"hipaa">>), SomeList(<<"nist", "hipaa", "nist">>)}

ApiParams ==
    [output_file : {None, "", "results.json"},
     pdf_output : {None, "", "report.pdf"},
     standards : ApiStandards]

\* an object on which run_basic_audit is called directly; the working directory is
\* empty, or holds a directory of the name the caller gives for the JSON file
InitApi ==
    /\ Fresh
    /\ pc = "api"
    /\ dirs \in {{"."}, {".", "results.json"}}
    /\ args = NoArgs
    /\ arg = <<>>
    /\ installed = [t \in Tools |-> None]
    /\ aws_connected \in BOOLEAN

NextAudit ==
    \/ CallRunBasicAudit(1, ApiParams)
    \/ AuditIam(AuditIamResponses)
    \/ AuditS3(AuditS3Responses)
    \/ AuditEc2(AuditEc2Responses)
    \/ AuditFinish

\* one direct call of run_basic_audit
SpecAudit == InitApi /\ [][NextAudit]_vars

\* two or more direct calls of run_basic_audit on one object, to compare their results
MaxRuns == 2

PairParams ==
    [output_file : {None}, pdf_output : {None},
     standards : {NoneList, SomeList(<<"pcidss", "cis">>)}]

PairS3Responses == {r \in AuditS3Responses : r.error # None \/ r.buckets # <<>>}

PairEc2Responses == {r \in AuditEc2Responses : r.error = None}

NextPair ==
    \/ CallRunBasicAudit(MaxRuns, PairParams)
    \/ AuditIam(AuditIamResponses)
    \/ AuditS3(PairS3Responses)
    \/ AuditEc2(PairEc2Responses)
    \/ AuditFinish

SpecPair == InitApi /\ [][NextPair]_vars

-----------------------------------------------------------------------------
(* The scanners, lines 188-399.  installed[t] is what _resolve_tool_path    *)
(* finds for tool t in PATH and the tools directories: None or a path.     *)

ToolPaths(t) ==
    CASE t = "PACU" -> {None, "/usr/local/bin/pacu", "tools/pacu/pacu.py"}
      [] t = "Scout Suite" -> {None, "tools/scout-suite/scout.py"}
      [] t = "CloudMapper" -> {None, "tools/cloudmapper/cloudmapper.py"}
      [] t = "aws-public-ips" -> {None, "/usr/local/bin/aws-public-ips"}

\* path.endswith('.py')
EndsWithPy(path) ==
    path \in {"tools/pacu/pacu.py", "tools/scout-suite/scout.py",
              "tools/cloudmapper/cloudmapper.py"}

\* lines 188-234
resolve_tool_path(t) == installed[t]

\* lines 236-245
check_tool_availability == [t \in Tools |-> resolve_tool_path(t) # None]

\* how a subprocess.run call ends: exit status 0, another status, or an exception
RunOutcomes == {"exit 0", "exit 1", "raised"}

\* lines 306-310, 342-345, 383: the command line, the interpreter first for a script
Command(path, rest) ==
    (IF EndsWithPy(path) THEN <<"sys.executable">> ELSE <<>>) \o <<path>> \o rest

\* lines 276-317; modules_arg stands for the joined module names
run_pacu ==
    LET pacu_path == resolve_tool_path("PACU")
    IN  /\ calls' = Append(calls, "run_pacu")
        /\ UNCHANGED <<files, dirs>>
        /\ IF pacu_path = None
           THEN /\ rets' = Append(rets, [op |-> "run_pacu", value |-> FALSE])
                /\ UNCHANGED subprocs
           ELSE \E outcome \in RunOutcomes :
                  /\ subprocs' = Append(subprocs,
                        [tool |-> "PACU", cmd |-> Command(pacu_path, <<"-m", "modules_arg">>)])
                  /\ rets' = Append(rets, [op |-> "run_pacu", value |-> outcome = "exit 0"])

\* run_scout_suite creating its report directory before it looks for the tool
run_scout_suite_mkdir_first(output_dir, next) ==
    LET scout_path == resolve_tool_path("Scout Suite")
        dir == IF Truthy(output_dir) THEN output_dir ELSE ScoutDefaultDir
    IN  /\ calls' = Append(calls, "run_scout_suite")
        /\ UNCHANGED files
        /\ IF MkdirRaises(dir, files)
           THEN /\ pc' = "crashed"
                /\ UNCHANGED <<dirs, subprocs, rets>>
           ELSE /\ pc' = next
                /\ dirs' = dirs \cup Ancestors(dir)
                /\ IF scout_path = None
                   THEN /\ rets' = Append(rets, [op |-> "run_scout_suite", value |-> FALSE])
                        /\ UNCHANGED subprocs
                   ELSE \E outcome \in RunOutcomes :
                          /\ subprocs' = Append(subprocs,
                                [tool |-> "Scout Suite",
                                 cmd |-> Command(scout_path,
                                           <<"--provider", "aws", "--report-dir", dir,
                                             "--no-browser">>)])
                          /\ rets' = Append(rets, [op |-> "run_scout_suite",
                                                   value |-> outcome = "exit 0"])

\* lines 319-358.  The mkdir of line 330 is outside the try: when it raises, the
\* exception leaves run_scout_suite and the program (pc = "crashed"); otherwise
\* the caller goes on at next.
run_scout_suite(output_dir, next) ==
    LET scout_path == resolve_tool_path("Scout Suite")
        dir == IF Truthy(output_dir) THEN output_dir ELSE ScoutDefaultDir
    IN  /\ calls' = Append(calls, "run_scout_suite")
        /\ UNCHANGED files
        /\ IF scout_path = None
           THEN /\ rets' = Append(rets, [op |-> "run_scout_suite", value |-> FALSE])
                /\ pc' = next
                /\ UNCHANGED <<dirs, subprocs>>
           ELSE IF MkdirRaises(dir, files)
           THEN /\ pc' = "crashed"
                /\ UNCHANGED <<dirs, subprocs, rets>>
           ELSE /\ pc' = next
                /\ dirs' = dirs \cup Ancestors(dir)
                /\ \E outcome \in RunOutcomes :
                     /\ subprocs' = Append(subprocs,
                           [tool |-> "Scout Suite",
                            cmd |-> Command(scout_path,
                                      <<"--provider", "aws", "--report-dir", dir,
                                        "--no-browser">>)])
                     /\ rets' = Append(rets, [op |-> "run_scout_suite",
                                              value |-> outcome = "exit 0"])

\* lines 360-399.  The mkdir of line 370 is outside the try; open() is inside it,
\* so a path that is a directory ends the call with False before any subprocess.
run_aws_public_ips(output_file, next) ==
    LET tool_path == resolve_tool_path("aws-public-ips")
        file == IF Truthy(output_file) THEN output_file ELSE PublicIpsDefaultFile
    IN  /\ calls' = Append(calls, "run_aws_public_ips")
        /\ IF tool_path = None
           THEN /\ rets' = Append(rets, [op |-> "run_aws_public_ips", value |-> FALSE])
                /\ pc' = next
                /\ UNCHANGED <<files, dirs, subprocs>>
           ELSE IF MkdirRaises(Parent(file), files)
           THEN /\ pc' = "crashed"
                /\ UNCHANGED <<files, dirs, subprocs, rets>>
           ELSE /\ pc' = next
                /\ dirs' = dirs \cup Ancestors(Parent(file))
                /\ IF OpenRaises(file, dirs)
                   THEN /\ rets' = Append(rets, [op |-> "run_aws_public_ips", value |-> FALSE])
                        /\ UNCHANGED <<files, subprocs>>
                   ELSE /\ files' = files \cup {file}
                        /\ \E outcome \in RunOutcomes :
                             /\ subprocs' = Append(subprocs,
                                   [tool |-> "aws-public-ips",
                                    cmd |-> Command(tool_path, <<"--format", "json">>)])
                             /\ rets' = Append(rets, [op |-> "run_aws_public_ips",
                                                      value |-> outcome = "exit 0"])

-----------------------------------------------------------------------------
(* main(), lines 924-1019 *)

\* what the command line gives for each option: None for an option left out
CommandLines ==
    [check_tools : BOOLEAN, audit : BOOLEAN, pacu : BOOLEAN, scout : BOOLEAN,
     public_ips : BOOLEAN, all : BOOLEAN,
     output : {None, "results.json"},
     pdf_output : {None, "report.pdf"},
     standards : {NoneList, SomeList(<<"nist", "cis">>)}]

\* parse_args without the default of --pdf-output
parse_args_no_default(argv) == argv

\* lines 951-969: the namespace, with the default of --pdf-output (line 960)
parse_args(argv) ==
    [argv EXCEPT !.pdf_output = IF argv.pdf_output = None THEN DefaultPdf ELSE @]

ToolInstalls == {f \in [Tools -> UNION {ToolPaths(t) : t \in Tools}] :
                   \A t \in Tools : f[t] \in ToolPaths(t)}

\* lines 969-986: the arguments are parsed and the object is constructed
InitMain ==
    /\ Fresh
    /\ pc = "main"
    /\ dirs = {"."}
    /\ arg \in CommandLines
    /\ args = parse_args(arg)
    /\ installed \in ToolInstalls
    /\ aws_connected \in BOOLEAN

\* --check-tools without the return of line 991: the status is displayed and main()
\* goes on to the operations
MainCheckToolsNoReturn ==
    /\ pc = "main"
    /\ pc' = "audit"
    /\ IF args.check_tools
       THEN /\ shown' = Append(shown, [what |-> "tool_status",
                                       status |-> check_tool_availability])
            /\ calls' = Append(calls, "display_tool_status")
       ELSE UNCHANGED <<shown, calls>>
    /\ UNCHANGED <<args, installed, aws_connected, audits, files, dirs, subprocs,
                   rets, arg, call, out>>

\* lines 988-991
MainCheckTools ==
    /\ pc = "main"
    /\ IF args.check_tools
       THEN /\ shown' = Append(shown, [what |-> "tool_status",
                                       status |-> check_tool_availability])
            /\ calls' = Append(calls, "display_tool_status")
            /\ pc' = "done"
       ELSE /\ pc' = "audit"
            /\ UNCHANGED <<shown, calls>>
    /\ UNCHANGED <<args, installed, aws_connected, audits, files, dirs, subprocs,
                   rets, arg, call, out>>

\* lines 994-999: the call; AuditIam .. AuditFinish are its body
MainAudit ==
    /\ pc = "audit"
    /\ IF args.audit \/ args.all
       THEN EnterRunBasicAudit(args.output, args.pdf_output, args.standards)
       ELSE /\ pc' = "pacu"
            /\ UNCHANGED <<calls, call, out>>
    /\ UNCHANGED <<args, installed, aws_connected, audits, files, dirs, subprocs,
                   rets, shown, arg>>

\* lines 1002-1006
MainPacu ==
    /\ pc = "pacu"
    /\ pc' = "scout"
    /\ IF args.pacu \/ args.all
       THEN run_pacu
       ELSE UNCHANGED <<calls, files, dirs, subprocs, rets>>
    /\ UNCHANGED <<args, installed, aws_connected, audits, shown, arg, call, out>>

\* lines 1008-1010
MainScout ==
    /\ pc = "scout"
    /\ IF args.scout \/ args.all
       THEN run_scout_suite(IF Truthy(args.output) THEN args.output ELSE ScoutDefaultDir,
                            "public_ips")
       ELSE /\ pc' = "public_ips"
            /\ UNCHANGED <<calls, files, dirs, subprocs, rets>>
    /\ UNCHANGED <<args, installed, aws_connected, audits, shown, arg, call, out>>

\* lines 1012-1014
MainPublicIps ==
    /\ pc = "public_ips"
    /\ IF args.public_ips \/ args.all
       THEN run_aws_public_ips(IF Truthy(args.output) THEN args.output
                               ELSE PublicIpsDefaultFile, "help")
       ELSE /\ pc' = "help"
            /\ UNCHANGED <<calls, files, dirs, subprocs, rets>>
    /\ UNCHANGED <<args, installed, aws_connected, audits, shown, arg, call, out>>

\* lines 1016-1019
MainHelp ==
    /\ pc = "help"
    /\ pc' = "done"
    /\ shown' = IF ~(\/ args.check_tools \/ args.audit \/ args.pacu \/ args.scout
                     \/ args.public_ips \/ args.all)
                THEN Append(shown, [what |-> "help"])
                ELSE shown
    /\ UNCHANGED <<args, installed, aws_connected, audits, calls, files, dirs, subprocs,
                   rets, arg, call, out>>

\* what AWS answers in a run of main()
MainIamResponses ==
    {[error |-> "AccessDenied"],
     [error |-> None, account |-> "123456789012", policy |-> "ClientError",
      users |-> IamUsers(1, {1}, <<[AccessKeyId |-> "AKIA1", CreateDate |-> 91]>>)]}

MainS3Responses == {[error |-> None, buckets |-> <<>>]}

MainEc2Responses == {[error |-> "UnauthorizedOperation"]}

Init == InitMain \/ InitApi

Next ==
    \/ MainCheckTools
    \/ MainAudit
    \/ CallRunBasicAudit(1, ApiParams)
    \/ AuditIam(MainIamResponses)
    \/ AuditS3(MainS3Responses)
    \/ AuditEc2(MainEc2Responses)
    \/ AuditFinish
    \/ MainPacu
    \/ MainScout
    \/ MainPublicIps
    \/ MainHelp

\* a run of main(), or one direct call of run_basic_audit
Spec == Init /\ [][Next]_vars

-----------------------------------------------------------------------------
(* Claims *)

Predicates == {"eval_mfa", "eval_old_keys", "eval_password_policy"}

\* the service data the evaluated controls were given
EvalIamData == Get(Get(arg.results, "checks", EmptyDict), "iam", EmptyDict)

\* C1: STANDARD_DEFINITIONS holds exactly the standards cis, nist and pcidss, each
\* with exactly three controls; every control's evaluator is one of the three
\* predicates, each predicate is used by exactly one control of each standard, and
\* an evaluated control's status is that predicate's verdict on the 'iam' data.
C1_StaticTable ==
    /\ DOMAIN STANDARD_DEFINITIONS = {"cis", "nist", "pcidss"}
    /\ \A k \in DOMAIN STANDARD_DEFINITIONS :
         LET ctrls == STANDARD_DEFINITIONS[k].controls
         IN  /\ Len(ctrls) = 3
             /\ \A i \in 1..Len(ctrls) : ctrls[i].evaluator \in Predicates
             /\ \A p \in Predicates :
                  Cardinality({i \in 1..Len(ctrls) : ctrls[i].evaluator = p}) = 1
    /\ pc = "returned" =>
         \A k \in DOMAIN out :
           /\ Len(out[k].controls) = 3
           /\ \A i \in 1..3 :
                out[k].controls[i].status =
                  IF Evaluate(STANDARD_DEFINITIONS[k].controls[i].evaluator, EvalIamData).passed
                  THEN "pass" ELSE "fail"

\* all three standards evaluated on data where only the old-keys predicate fails
C1_Witness ==
    /\ pc = "returned"
    /\ DOMAIN out = {"cis", "nist", "pcidss"}
    /\ \A k \in DOMAIN out :
         \A i \in 1..3 :
           out[k].controls[i].status = "fail"
             <=> STANDARD_DEFINITIONS[k].controls[i].evaluator = "eval_old_keys"

\* the positions of the findings of service_data titled title
TitledAt(service_data, title) ==
    LET fs == Get(service_data, "findings", <<>>)
    IN  {i \in 1..Len(fs) : "title" \in DOMAIN fs[i] /\ fs[i].title = title}

\* the first finding titled title (when there is one)
FirstTitled(service_data, title) ==
    LET at == TitledAt(service_data, title)
    IN  service_data.findings[CHOOSE i \in at : \A j \in at : i <= j]

HasError(service_data) ==
    "error" \in DOMAIN service_data /\ Truthy(service_data.error)

\* the verdict C2 states for a predicate that looks at a count
FailsOnCount(service_data, title) ==
    \/ HasError(service_data)
    \/ /\ TitledAt(service_data, title) # {}
       /\ "count" \in DOMAIN FirstTitled(service_data, title)
       /\ FirstTitled(service_data, title).count > 0

\* the verdict C2 states for the password policy predicate
FailsOnStatus(service_data, title) ==
    \/ HasError(service_data)
    \/ /\ TitledAt(service_data, title) # {}
       /\ "status" \in DOMAIN FirstTitled(service_data, title)
       /\ FirstTitled(service_data, title).status = "not configured"

ClaimedFail(evaluator, service_data) ==
    CASE evaluator = "eval_mfa" -> FailsOnCount(service_data, TitleMfa)
      [] evaluator = "eval_old_keys" -> FailsOnCount(service_data, TitleOldKeys)
      [] evaluator = "eval_password_policy" -> FailsOnStatus(service_data, TitlePolicy)

\* C2: each predicate fails exactly when the service data has a truthy 'error' or
\* the first finding of the predicate's title has count > 0 (eval_mfa,
\* eval_old_keys) or status 'not configured' (eval_password_policy), and passes in
\* every other case; the statuses _evaluate_standards reports are these verdicts.
C2_PredicateVerdicts ==
    /\ \A p \in Predicates :
         Evaluate(p, EvalIamData).passed = ~ClaimedFail(p, EvalIamData)
    /\ Evaluate("eval_mfa", EmptyDict).passed
    /\ pc = "returned" =>
         \A k \in DOMAIN out :
           \A i \in 1..Len(out[k].controls) :
             out[k].controls[i].status = "fail"
               <=> ClaimedFail(STANDARD_DEFINITIONS[k].controls[i].evaluator, EvalIamData)

\* two findings of one title with opposite verdicts: the first one decides
C2_Witness ==
    /\ pc = "returned"
    /\ "findings" \in DOMAIN EvalIamData
    /\ EvalIamData.findings = <<[title |-> TitleMfa, count |-> 0],
                                [title |-> TitleMfa, count |-> 2]>>
    /\ ~HasError(EvalIamData)
    /\ "cis" \in DOMAIN out
    /\ out["cis"].controls[1].status = "pass"

\* C3: each evaluated standard lists one control result per control of its
\* definition, in definition order, each with status 'pass' or 'fail', and the
\* standard's status is 'pass' if and only if every control result is 'pass'.
C3_StandardOutput ==
    pc = "returned" =>
      \A k \in DOMAIN out :
        /\ k \in DOMAIN STANDARD_DEFINITIONS
        /\ Len(out[k].controls) = Len(STANDARD_DEFINITIONS[k].controls)
        /\ \A i \in 1..Len(out[k].controls) :
             /\ out[k].controls[i].id = STANDARD_DEFINITIONS[k].controls[i].id
             /\ out[k].controls[i].title = STANDARD_DEFINITIONS[k].controls[i].title
             /\ out[k].controls[i].status \in {"pass", "fail"}
        /\ out[k].status \in {"pass", "fail"}
        /\ out[k].status = "pass"
             <=> \A i \in 1..Len(out[k].controls) : out[k].controls[i].status = "pass"

\* a standard that fails with one failed and two passed controls, next to one run
\* through the same data in another control order
C3_Witness ==
    /\ pc = "returned"
    /\ {"cis", "pcidss"} \subseteq DOMAIN out
    /\ out["cis"].status = "fail"
    /\ out["cis"].controls[1].status = "pass"
    /\ out["cis"].controls[2].status = "fail"
    /\ out["cis"].controls[3].status = "pass"
    /\ out["pcidss"].controls[3].status = "fail"

\* U of C4: the users without an MFA device
CountNoMfa(users) == Cardinality({i \in 1..Len(users) : users[i].MFADevices = <<>>})

\* K of C4: the access keys older than 90 days, as <<user, key>> positions
CountOldKeys(users) ==
    Cardinality({uk \in (1..Len(users)) \X (1..3) :
                   /\ uk[2] <= Len(users[uk[1]].AccessKeyMetadata)
                   /\ "CreateDate" \in DOMAIN users[uk[1]].AccessKeyMetadata[uk[2]]
                   /\ users[uk[1]].AccessKeyMetadata[uk[2]].CreateDate > 90})

\* C4: when basic_iam_check completes without an exception, security_score =
\* 100 - min(10, 2*U) - min(10, K) - P and lies in 75..100.
C4_IamScore ==
    (pc = "returned" /\ "error" \notin DOMAIN out) =>
      LET U == CountNoMfa(arg.users)
          K == CountOldKeys(arg.users)
          P == IF arg.policy = "ClientError" THEN 5 ELSE 0
      IN  /\ out.security_score = 100 - Min(10, 2 * U) - Min(10, K) - P
          /\ out.security_score \in 75..100

\* both caps bite and the policy is missing: six users without MFA, twelve old keys
C4_Witness ==
    /\ pc = "returned"
    /\ "error" \notin DOMAIN out
    /\ CountNoMfa(arg.users) = 6
    /\ CountOldKeys(arg.users) = 12
    /\ arg.policy = "ClientError"
    /\ out.security_score = 75

\* the values a sequence holds
Range(s) == {s[i] : i \in 1..Len(s)}

\* how often x occurs in s
Count(s, x) == Cardinality({i \in 1..Len(s) : s[i] = x})

\* C5: any two audit runs with equal IAM check results have equal overall_score,
\* equal score_breakdown, and equal controls and status for every standard both
\* evaluated, whatever their S3 and EC2 check results are.
C5_S3Ec2Informational ==
    \A i, j \in 1..Len(audits) :
      LET a == audits[i].results
          b == audits[j].results
      IN  a.checks["iam"] = b.checks["iam"] =>
            /\ a.overall_score = b.overall_score
            /\ a.score_breakdown = b.score_breakdown
            /\ \A k \in (DOMAIN a.standards) \cap (DOMAIN b.standards) :
                 /\ a.standards[k].controls = b.standards[k].controls
                 /\ a.standards[k].status = b.standards[k].status

\* two runs on the same IAM findings, one with the S3 check failing and no open
\* security group, the other with S3 findings and an open port
C5_Witness ==
    /\ Len(audits) = 2
    /\ audits[1].results.checks["iam"] = audits[2].results.checks["iam"]
    /\ "error" \notin DOMAIN audits[1].results.checks["iam"]
    /\ audits[1].results.score_breakdown # <<>>
    /\ "error" \in DOMAIN audits[1].results.checks["s3"]
    /\ "error" \notin DOMAIN audits[2].results.checks["s3"]
    /\ audits[2].results.checks["s3"].findings # <<>>
    /\ audits[1].results.checks["ec2"].findings = <<>>
    /\ audits[2].results.checks["ec2"].findings # <<>>
    /\ "cis" \in (DOMAIN audits[1].results.standards) \cap (DOMAIN audits[2].results.standards)

RECURSIVE SumDeductions(_)
SumDeductions(breakdown) ==
    IF breakdown = <<>> THEN 0
    ELSE Head(breakdown).deduction + SumDeductions(Tail(breakdown))

\* C6: in every audit result overall_score = baseline_score minus the sum of the
\* deductions of score_breakdown, so an empty score_breakdown means a score of 100.
C6_ScoreIsBaselineMinusDeductions ==
    \A i \in 1..Len(audits) :
      LET r == audits[i].results
      IN  /\ r.overall_score = r.baseline_score - SumDeductions(r.score_breakdown)
          /\ r.score_breakdown = <<>> => r.overall_score = 100

\* C7 as claimed: an audit started without a PDF output (run_basic_audit with
\* pdf_output=None, or the command line without --pdf-output) performs no PDF
\* generation step.
C7_NoPdfUnlessAsked ==
    /\ (CalledFromMain /\ arg.pdf_output = None) => "_generate_pdf_report" \notin Range(calls)
    /\ (~CalledFromMain /\ call # <<>> /\ call.pdf_output = None)
         => "_generate_pdf_report" \notin Range(calls)

\* C7 as amended: a run_basic_audit call that returns has performed the PDF
\* generation step exactly when its pdf_output argument is a non-empty path (so never
\* with pdf_output=None), and main() passes 'audit_report.pdf' when --pdf-output is
\* left out, so that an audit from the command line performs the step.
C7_PdfWhenPathPassed ==
    /\ Count(calls, "_generate_pdf_report")
         = Cardinality({i \in 1..Len(audits) : Truthy(audits[i].call.pdf_output)})
    /\ \A i \in 1..Len(audits) :
         audits[i].call.pdf_output = None => "_generate_pdf_report" \notin Range(calls)
    /\ (CalledFromMain /\ call # <<>>) =>
         /\ call.pdf_output = IF arg.pdf_output = None THEN DefaultPdf ELSE arg.pdf_output
         /\ Truthy(call.pdf_output)

\* --audit alone, without --pdf-output: the report is generated at the default path
C7_Witness ==
    /\ CalledFromMain
    /\ arg.audit /\ ~arg.all
    /\ arg.pdf_output = None
    /\ Len(audits) = 1
    /\ "_generate_pdf_report" \in Range(calls)
    /\ DefaultPdf \in files

\* a runner that ends with False and has touched nothing
ReturnsFalseUntouched(op) ==
    /\ subprocs' = subprocs
    /\ files' = files
    /\ dirs' = dirs
    /\ rets' = Append(rets, [op |-> op, value |-> FALSE])

\* C8: when _resolve_tool_path returns None for its tool, each of run_pacu,
\* run_scout_suite and run_aws_public_ips returns False, starts no subprocess and
\* creates no directory and no file.
C8_MissingToolNoEffect ==
    [][/\ (pc = "pacu" /\ (args.pacu \/ args.all) /\ resolve_tool_path("PACU") = None)
            => ReturnsFalseUntouched("run_pacu")
       /\ (pc = "scout" /\ (args.scout \/ args.all) /\ resolve_tool_path("Scout Suite") = None)
            => ReturnsFalseUntouched("run_scout_suite")
       /\ (pc = "public_ips" /\ (args.public_ips \/ args.all)
             /\ resolve_tool_path("aws-public-ips") = None)
            => ReturnsFalseUntouched("run_aws_public_ips")]_vars

\* the three runners called with no tool installed: three times False, nothing run,
\* nothing created
C8_Witness ==
    /\ pc = "done"
    /\ CalledFromMain
    /\ args.pacu /\ args.scout /\ args.public_ips /\ ~args.all /\ ~args.audit
    /\ \A t \in Tools : installed[t] = None
    /\ rets = <<[op |-> "run_pacu", value |-> FALSE],
                [op |-> "run_scout_suite", value |-> FALSE],
                [op |-> "run_aws_public_ips", value |-> FALSE]>>
    /\ subprocs = <<>>
    /\ files = {}
    /\ dirs = {"."}

\* C9: at the end of a run of main() with --all, every one of the four scanners
\* that check_tool_availability reports as available was invoked as a subprocess.
C9_AllAvailableScannersInvoked ==
    (pc = "done" /\ CalledFromMain /\ args.all /\ ~args.check_tools) =>
      \A t \in Tools :
        check_tool_availability[t] => \E i \in 1..Len(subprocs) : subprocs[i].tool = t

CheckOrder == <<"basic_iam_check", "basic_s3_check", "basic_ec2_check">>

IsCheck(op) == op \in Range(CheckOrder)

\* C10: a run_basic_audit call executes the IAM, S3 and EC2 checks once each, in
\* that order, whatever their results; the result it returns has 'checks' for
\* exactly iam, s3 and ec2, and 'overall_score', 'standards' and
\* 'selected_standards'; it has written the JSON file exactly when output_file
\* was given (a non-empty path).
C10_AuditSequence ==
    LET checks_run == SelectSeq(calls, IsCheck)
    IN  /\ \A i \in 1..Len(checks_run) : checks_run[i] = CheckOrder[((i - 1) % 3) + 1]
        /\ pc = "api" => Len(checks_run) = 3 * Len(audits)
        /\ \A i \in 1..Len(audits) :
             /\ DOMAIN audits[i].results.checks = {"iam", "s3", "ec2"}
             /\ {"overall_score", "standards", "selected_standards"}
                  \subseteq DOMAIN audits[i].results
        /\ (pc = "api" /\ Len(audits) = 1) =>
             /\ "json.dump" \in Range(calls) <=> Truthy(call.output_file)
             /\ Truthy(call.output_file) => call.output_file \in files
             /\ ~Truthy(call.output_file) => files \cap {"", "results.json"} = {}

\* the IAM and S3 checks both end in an error, the EC2 check still runs and
\* reports, and the results are saved
C10_Witness ==
    /\ pc = "api"
    /\ Len(audits) = 1
    /\ "error" \in DOMAIN audits[1].results.checks["iam"]
    /\ "error" \in DOMAIN audits[1].results.checks["s3"]
    /\ "error" \notin DOMAIN audits[1].results.checks["ec2"]
    /\ audits[1].results.checks["ec2"].findings # <<>>
    /\ aws_connected
    /\ call.output_file = "results.json"
    /\ "results.json" \in files

\* C11: an audit called with no standards (None or an empty list) evaluates exactly
\* 'cis', 'nist' and 'pcidss'; an audit called with a non-empty list of supported
\* keys evaluates exactly the standards of that list, each as _evaluate_standards
\* computes it from the audit's checks.
C11_StandardsEvaluated ==
    \A i \in 1..Len(audits) :
      LET standards == audits[i].call.standards
          results == audits[i].results
          evaluated == DOMAIN results.standards
          none_selected == standards.is_none \/ standards.list = <<>>
      IN  /\ none_selected => evaluated = {"cis", "nist", "pcidss"}
          /\ (~none_selected /\ Range(standards.list) \subseteq DOMAIN STANDARD_DEFINITIONS)
                => evaluated = Range(standards.list)
          /\ \A key \in evaluated :
                results.standards[key] = StandardOutput(results.checks, STANDARD_DEFINITIONS[key])

C11_Witness ==
    \E i \in 1..Len(audits) :
      /\ audits[i].call.standards = SomeList(<<"pcidss", "nist">>)
      /\ DOMAIN audits[i].results.standards = {"pcidss", "nist"}
      /\ "cis" \notin DOMAIN audits[i].results.standards

\* the four operations of main(), in the order of lines 994-1014
DispatchOrder == <<"run_basic_audit", "run_pacu", "run_scout_suite", "run_aws_public_ips">>

IsOperation(c) == c \in Range(DispatchOrder)

\* the operations called so far, in the order of their calls
OpsCalled == SelectSeq(calls, IsOperation)

\* whether the command line selects operation op
IsSelected(op) ==
    \/ args.all
    \/ op = "run_basic_audit" /\ args.audit
    \/ op = "run_pacu" /\ args.pacu
    \/ op = "run_scout_suite" /\ args.scout
    \/ op = "run_aws_public_ips" /\ args.public_ips

SelectedOps == SelectSeq(DispatchOrder, IsSelected)

NoFlag ==
    ~(\/ args.check_tools \/ args.audit \/ args.pacu \/ args.scout
      \/ args.public_ips \/ args.all)

IsPrefix(s, t) == Len(s) <= Len(t) /\ SubSeq(t, 1, Len(s)) = s

HelpShown == \E i \in 1..Len(shown) : shown[i].what = "help"

\* C12: in a run of main(), with --check-tools nothing but the tool status is shown
\* and no operation is called, no audit made and no subprocess started, whatever the
\* other flags; with none of the six flags no operation is called and the finished
\* run has printed the help and nothing else; otherwise the operations called so far
\* are the first of the selected ones in the order audit, PACU, Scout Suite,
\* aws-public-ips, each called at most once, the run that reaches its end has called
\* all of them, and the help is not printed.
C12_CliDispatch ==
    CalledFromMain =>
      /\ args.check_tools =>
            /\ OpsCalled = <<>> /\ audits = <<>> /\ subprocs = <<>> /\ rets = <<>>
            /\ pc = "done" =>
                  /\ calls = <<"display_tool_status">>
                  /\ shown = <<[what |-> "tool_status", status |-> check_tool_availability]>>
      /\ NoFlag =>
            /\ OpsCalled = <<>> /\ audits = <<>> /\ subprocs = <<>> /\ rets = <<>>
            /\ pc = "done" => shown = <<[what |-> "help"]>>
      /\ (~args.check_tools /\ ~NoFlag) =>
            /\ IsPrefix(OpsCalled, SelectedOps)
            /\ pc = "done" => OpsCalled = SelectedOps
            /\ ~HelpShown

C12_Witness ==
    /\ CalledFromMain
    /\ pc = "done"
    /\ ~args.check_tools /\ ~args.all /\ ~args.pacu
    /\ args.audit /\ args.scout /\ args.public_ips
    /\ OpsCalled = <<"run_basic_audit", "run_scout_suite", "run_aws_public_ips">>

\* C13: a run of main() with --all and without --check-tools that has come to its
\* end, by returning or by an exception, has called each of run_basic_audit,
\* run_pacu, run_scout_suite and run_aws_public_ips, whatever the earlier operations
\* returned and whatever --output is.
C13_AllAttemptsEveryOperation ==
    (/\ CalledFromMain
     /\ args.all /\ ~args.check_tools
     /\ pc \in {"done", "crashed"})
      => OpsCalled = DispatchOrder

====
